---- MODULE Spec2Model ----
(***************************************************************************)
(* State-machine model of src/imagen_recursiva.py:                         *)
(* RecursiveImageProcessor (block averages, recolouring, the division of   *)
(* the output canvas into row sections, the section worker threads and the *)
(* progress polling of process_image).                                     *)
(*                                                                         *)
(* Representation.                                                         *)
(*  - A colour is a triple <<r, g, b>> of integers.                        *)
(*  - The source image (self.image_array, H x W x 3, uint8) is kept        *)
(*    run-length encoded: a sequence of bands, each `rows` identical rows  *)
(*    made of runs of `len` identical pixels.  A small image has one band  *)
(*    per row and one run per pixel; the encoding only makes images of     *)
(*    several megapixels representable.                                    *)
(*  - Images built by the program (thumbnail, section images, canvas) are  *)
(*    records [width, height, px] with px a function of <<x, y>>.          *)
(*  - NumPy's int32 accumulator is modelled with its width (Int32Add);     *)
(*    Python floats are modelled by exact rationals: int(a * (n / d)) is   *)
(*    (a * n) \div d and int(v * (b / t)) is (v * b) \div t.  Float        *)
(*    rounding can make the two differ (first at source width 7 with       *)
(*    block size 60); for the source images and block sizes up to 7 of     *)
(*    this model the canvases were compared with a float computation and   *)
(*    agree.                                                               *)
(***************************************************************************)
EXTENDS Integers, Sequences, FiniteSets

\* ------------------------------------------------------------------ bounds
MaxBlock == 4
MaxPolls == 1
MaxDivWidth == 3
MaxDivHeight == 27
MaxCoord == 3

\* ------------------------------------------------------- program constants
num_sections == 4
INT32_MAX == 2147483647

\* ---------------------------------------------------------------- helpers
Min(a, b) == IF a < b THEN a ELSE b

Max(a, b) == IF a > b THEN a ELSE b

Channels == 1..3

Black == <<0, 0, 0>>

\* range(a, b, step) as a sequence, step >= 1
Range(a, b, step) ==
    LET n == IF b <= a THEN 0 ELSE (b - a + step - 1) \div step
    IN  [k \in 1..n |-> a + (k - 1) * step]

\* int(a * (n / d)) for a, n >= 0, d > 0
IntScale(a, n, d) == (a * n) \div d

\* ------------------------------------------------- int32 arithmetic (NumPy)
\* a + b in a 32-bit two's-complement accumulator (wraps silently)
Int32Add(a, b) ==
    IF a >= 0 /\ b >= 0 /\ a > INT32_MAX - b
        THEN (a - INT32_MAX - 1) + (b - INT32_MAX - 1)
    ELSE IF a < 0 /\ b < 0 /\ a < (-INT32_MAX - 1) - b
        THEN (a + INT32_MAX + 1) + (b + INT32_MAX + 1)
    ELSE a + b

\* the int32 sum of n copies of s (n >= 0), by doubling
RECURSIVE Int32Mul(_, _)
Int32Mul(n, s) ==
    IF n = 0 THEN 0
    ELSE LET h == Int32Mul(n \div 2, s)
             d == Int32Add(h, h)
         IN  IF n % 2 = 1 THEN Int32Add(d, s) ELSE d

\* true_divide followed by the unsafe cast to int32: truncation toward zero
TruncDiv(s, n) ==
    IF s >= 0 \/ s % n = 0 THEN s \div n ELSE (s \div n) + 1

\* ------------------------------------------------------------ source image
Overlap(a0, a1, b0, b1) == Max(0, Min(a1, b1) - Max(a0, b0))

\* sum of channel ch over columns [x0, x1) of one row; `at` is the column of
\* the first run
RECURSIVE RowSum(_, _, _, _, _)
RowSum(runs, at, x0, x1, ch) ==
    IF runs = <<>> THEN 0
    ELSE Overlap(at, at + Head(runs).len, x0, x1) * Head(runs).color[ch]
         + RowSum(Tail(runs), at + Head(runs).len, x0, x1, ch)

\* np.sum(block, axis=(0, 1), dtype=np.int32) of channel ch over the slice
\* [y0:y1, x0:x1]; `at` is the row of the first band
RECURSIVE SumInt32(_, _, _, _, _, _, _)
SumInt32(bands, at, x0, x1, y0, y1, ch) ==
    IF bands = <<>> THEN 0
    ELSE Int32Add(
           Int32Mul(Overlap(at, at + Head(bands).rows, y0, y1),
                    RowSum(Head(bands).runs, 0, x0, x1, ch)),
           SumInt32(Tail(bands), at + Head(bands).rows, x0, x1, y0, y1, ch))

\* np.mean(image_array[y0:y1, x0:x1], axis=(0, 1), dtype=np.int32)
MeanInt32(img, x0, x1, y0, y1) ==
    [ch \in Channels |->
        TruncDiv(SumInt32(img.bands, 0, x0, x1, y0, y1, ch),
                 (x1 - x0) * (y1 - y0))]

compute_image_average_color(img) ==
    MeanInt32(img, 0, img.width, 0, img.height)

compute_block_average_color(img, x0, y0, block_size_) ==
    LET x_end == Min(x0 + block_size_, img.width)
        y_end == Min(y0 + block_size_, img.height)
    IN  IF x0 >= img.width \/ y0 >= img.height \/ x_end <= x0 \/ y_end <= y0
        THEN Black
        ELSE MeanInt32(img, x0, x_end, y0, y_end)

\* colour of pixel (x, y) of a run-length encoded image
RECURSIVE RunColor(_, _)
RunColor(runs, x) ==
    IF x < Head(runs).len THEN Head(runs).color
    ELSE RunColor(Tail(runs), x - Head(runs).len)

RECURSIVE BandRuns(_, _)
BandRuns(bands, y) ==
    IF y < Head(bands).rows THEN Head(bands).runs
    ELSE BandRuns(Tail(bands), y - Head(bands).rows)

Pixel(img, x, y) == RunColor(BandRuns(img.bands, y), x)

\* one row of single pixels
Row(colors) == [rows |-> 1, runs |-> [k \in 1..Len(colors) |-> [len |-> 1, color |-> colors[k]]]]

\* ------------------------------------------------------- built images (PIL)
Pixels(w, h) == (0..(w - 1)) \X (0..(h - 1))

\* Image.new("RGB", (w, h)): black
NewImage(w, h) == [width |-> w, height |-> h, px |-> [p \in Pixels(w, h) |-> Black]]

NoImage == [width |-> 0, height |-> 0, px |-> [p \in {} |-> Black]]

\* dst.paste(src, (ox, oy)): src copied at (ox, oy), clipped to dst
Paste(dst, src, ox, oy) ==
    [dst EXCEPT !.px =
        [p \in DOMAIN dst.px |->
            IF /\ p[1] - ox \in 0..(src.width - 1)
               /\ p[2] - oy \in 0..(src.height - 1)
            THEN src.px[<<p[1] - ox, p[2] - oy>>]
            ELSE dst.px[p]]]

\* Resampling of one line of channel values to n samples, as Pillow's
\* resize does it on one axis (normalised kernel, result rounded to nearest).
\* The coefficients are fixed by normalisation and symmetry alone, whatever
\* the filter (BILINEAR, LANCZOS), in three cases: the axis keeps its length
\* (the pass is skipped), the line has one sample (its weight is 1), or two
\* samples are reduced to one (weights 1/2, 1/2).  Other cases depend on the
\* filter's kernel values and are outside the inputs of this model.
ResizeKnown(len, n) == len = n \/ len = 1 \/ (len = 2 /\ n = 1)

ResampleLine(line, n) ==
    IF Len(line) = n THEN line
    ELSE IF Len(line) = 1 THEN [k \in 1..n |-> line[1]]
    ELSE <<(line[1] + line[2] + 1) \div 2>>

\* original_image.resize((n, n), resampling): horizontal pass, then vertical
Resize(img, n) ==
    LET hpass == [y \in 0..(img.height - 1) |->
                    [ch \in Channels |->
                        ResampleLine([k \in 1..img.width |-> Pixel(img, k - 1, y)[ch]], n)]]
        vpass == [x \in 0..(n - 1) |->
                    [ch \in Channels |->
                        ResampleLine([k \in 1..img.height |-> hpass[k - 1][ch][x + 1]], n)]]
    IN  [width |-> n, height |-> n,
         px |-> [p \in Pixels(n, n) |-> [ch \in Channels |-> vpass[p[1]][ch][p[2] + 1]]]]

\* int32 sum of channel ch over the first k pixels of row y of a built image
RECURSIVE SumPxRow(_, _, _, _)
SumPxRow(img, y, k, ch) ==
    IF k = 0 THEN 0
    ELSE Int32Add(img.px[<<k - 1, y>>][ch], SumPxRow(img, y, k - 1, ch))

\* and over its first k rows
RECURSIVE SumPx(_, _, _)
SumPx(img, k, ch) ==
    IF k = 0 THEN 0
    ELSE Int32Add(SumPxRow(img, k - 1, img.width, ch), SumPx(img, k - 1, ch))

\* mean colour of a built image, as np.mean(..., axis=(0, 1), dtype=np.int32)
\* gives it
BuiltImageAverage(img) ==
    [ch \in Channels |->
        TruncDiv(SumPx(img, img.height, ch), img.width * img.height)]

\* ------------------------------------------------------------ _recolor_image
\* np.clip(v * (b / t), 0, 255).astype(np.uint8) with t already floored at 1
RecolorChannel(v, t, b) ==
    IF b < 0 THEN 0 ELSE Min(255, (v * b) \div t)

recolor_image(image, target_avg, block_avg) ==
    [image EXCEPT !.px =
        [p \in DOMAIN image.px |->
            [ch \in Channels |->
                RecolorChannel(image.px[p][ch], Max(1, target_avg[ch]), block_avg[ch])]]]

\* faulty variant of divide_into_sections: the last section ends like the
\* others, so the remainder rows belong to no section
divide_into_sections_no_remainder(width, height, block_size_) ==
    LET section_height == height \div num_sections
    IN  [k \in 1..num_sections |->
            <<0, (k - 1) * section_height, width, k * section_height>>]

\* ------------------------------------------------------ _divide_into_sections
divide_into_sections(width, height, block_size_) ==
    LET section_height == height \div num_sections
    IN  [k \in 1..num_sections |->
            <<0, (k - 1) * section_height, width,
              IF k = num_sections THEN height ELSE k * section_height>>]

\* ----------------------------------------------------------- _process_section
\* faulty variant of BlockOrigins: the loops step by one pixel less than the
\* tile is wide
BlockOrigins_short_stride(section, block_size_) ==
    LET xs == Range(section[1], section[3], Max(1, block_size_ - 1))
        ys == Range(section[2], section[4], Max(1, block_size_ - 1))
    IN  [k \in 1..(Len(xs) * Len(ys)) |->
            <<xs[((k - 1) % Len(xs)) + 1], ys[((k - 1) \div Len(xs)) + 1]>>]

\* the (x, y) of the nested loops of lines 267-268, in loop order
BlockOrigins(section, block_size_) ==
    LET xs == Range(section[1], section[3], block_size_)
        ys == Range(section[2], section[4], block_size_)
    IN  [k \in 1..(Len(xs) * Len(ys)) |->
            <<xs[((k - 1) % Len(xs)) + 1], ys[((k - 1) \div Len(xs)) + 1]>>]

\* the key of the block average looked up for the block at (x, y)
\* (scale_factor = self.width / new_image.width, with new_w > 0)
BlockKey(img, new_w, x, y, block_size_) ==
    <<IntScale(x, img.width, new_w), IntScale(y, img.width, new_w),
      IntScale(block_size_, img.width, new_w)>>

\* lines 270-286 for the blocks k..Len(blocks): each tile recoloured and
\* pasted into the section image
RECURSIVE PasteTiles(_, _, _, _, _, _, _, _)
PasteTiles(section_image_, blocks, k, img, new_w, section, block_size_, thumb) ==
    IF k > Len(blocks) THEN section_image_
    ELSE LET key == BlockKey(img, new_w, blocks[k][1], blocks[k][2], block_size_)
             block_avg_color == compute_block_average_color(img, key[1], key[2], key[3])
             recolored_tile == recolor_image(thumb.image, thumb.avg, block_avg_color)
         IN  PasteTiles(
                Paste(section_image_, recolored_tile,
                      blocks[k][1] - section[1], blocks[k][2] - section[2]),
                blocks, k + 1, img, new_w, section, block_size_, thumb)

\* lines 256-286: the section image a worker builds; thumb is the pair
\* (scaled_image, scaled_avg_color)
ComposeSection(img, new_w, section, block_size_, thumb) ==
    PasteTiles(NewImage(section[3] - section[1], section[4] - section[2]),
               BlockOrigins(section, block_size_), 1,
               img, new_w, section, block_size_, thumb)

\* number of tile pastes of a section that cover pixel p of its section image
TilePastes(section, block_size_, tile, p) ==
    LET blocks == BlockOrigins(section, block_size_)
    IN  Cardinality({k \in 1..Len(blocks) :
            /\ p[1] - (blocks[k][1] - section[1]) \in 0..(tile.width - 1)
            /\ p[2] - (blocks[k][2] - section[2]) \in 0..(tile.height - 1)})

\* ================================================================== state
VARIABLES
    image_array,        \* self.original_image / self.image_array (with width, height)
    global_avg_color,   \* self.global_avg_color
    lru_cache,          \* keys memoised by @lru_cache (maxsize 1024 is never reached)
    block_size,         \* process_image arguments
    quality_level,
    show_progress,
    pc,                 \* position of the thread running process_image
    adjusted_block_size,
    new_image,          \* the output canvas
    sections,
    scaled_image,
    scaled_avg_color,
    results,
    threads,            \* indices of the threads started so far, in order
    thread_pc,          \* per worker: "unstarted", "run", "composed", "pasted", "dead"
    thread_exc,         \* per worker: the exception that ended it, or "none"
    section_image,      \* per worker: its local section image
    join_i,             \* index of the join loop of lines 202-203
    progress_bar,       \* value shown by the progress bar
    status_text,
    polls,              \* iterations of the polling loop so far
    reports,            \* history: every progress report, with what was true then
    canvas_log,         \* history: per canvas pixel, the pastes that wrote it
    call,               \* arguments of a direct call of one method
    ret                 \* and its result

vars == <<image_array, global_avg_color, lru_cache, block_size, quality_level,
          show_progress, pc, adjusted_block_size, new_image, sections,
          scaled_image, scaled_avg_color, results, threads, thread_pc,
          thread_exc, section_image, join_i, progress_bar, status_text, polls,
          reports, canvas_log, call, ret>>

Workers == 0..(num_sections - 1)

\* ----------------------------------------------------------------- inputs
QualityLevels == {"low", "normal", "high", "ultra"}

\* scale_factor of lines 131-142 as a fraction
ScaleNum(q) == CASE q = "low" -> 3 [] q = "normal" -> 1 [] q = "high" -> 3 [] q = "ultra" -> 2

ScaleDen(q) == CASE q = "low" -> 4 [] q = "normal" -> 1 [] q = "high" -> 2 [] q = "ultra" -> 1

Image1x1 ==
    [width |-> 1, height |-> 1, bands |-> <<Row(<<(<<200, 100, 50>>)>>)>>]

Image2x1 ==
    [width |-> 2, height |-> 1, bands |-> <<Row(<<(<<90, 0, 7>>), <<30, 255, 8>>>>)>>]

Image2x2 ==
    [width |-> 2, height |-> 2,
     bands |-> <<Row(<<(<<255, 3, 0>>), <<255, 3, 0>>>>),
                 Row(<<(<<0, 0, 0>>), <<0, 0, 0>>>>)>>]

Image4x4 ==
    [width |-> 4, height |-> 4,
     bands |-> <<Row(<<(<<200, 10, 0>>), <<200, 10, 0>>, <<40, 10, 0>>, <<40, 10, 0>>>>),
                 Row(<<(<<100, 50, 0>>), <<100, 50, 0>>, <<100, 50, 0>>, <<100, 50, 0>>>>),
                 Row(<<(<<0, 90, 0>>), <<60, 90, 0>>, <<0, 90, 0>>, <<60, 90, 0>>>>),
                 Row(<<(<<20, 130, 255>>), <<20, 130, 255>>, <<20, 130, 255>>, <<20, 130, 255>>>>)>>]

SourceImages == {Image1x1, Image2x1, Image2x2, Image4x4}

AdjustedBlockSize(bs, q) == Max(1, IntScale(bs, ScaleNum(q), ScaleDen(q)))

\* values of the process variables while process_image is not running
NotStarted ==
    /\ pc = "call"
    /\ adjusted_block_size = 0
    /\ new_image = NoImage
    /\ sections = <<>>
    /\ scaled_image = NoImage
    /\ scaled_avg_color = Black
    /\ results = <<>>
    /\ threads = <<>>
    /\ thread_pc = [i \in Workers |-> "unstarted"]
    /\ thread_exc = [i \in Workers |-> "none"]
    /\ section_image = [i \in Workers |-> NoImage]
    /\ join_i = 0
    /\ progress_bar = <<"none", 0, 1>>
    /\ status_text = <<"none", 0>>
    /\ polls = 0
    /\ reports = <<>>
    /\ canvas_log = [p \in {} |-> 0]
    /\ lru_cache = {}

\* __init__ (lines 18-32) on a source image, then a call of process_image
Init ==
    /\ image_array \in SourceImages
    /\ global_avg_color = compute_image_average_color(image_array)
    /\ block_size \in 1..MaxBlock
    /\ quality_level \in QualityLevels
    /\ show_progress \in BOOLEAN
    /\ ResizeKnown(image_array.width, AdjustedBlockSize(block_size, quality_level))
    /\ ResizeKnown(image_array.height, AdjustedBlockSize(block_size, quality_level))
    /\ NotStarted
    /\ call = [fn |-> "process_image"]
    /\ ret = [done |-> FALSE, value |-> NoImage]

\* ===================================================== process_image (main)
Fraction(n, d) == <<n, d>>

\* a progress report, with the facts of the moment it is made
Report(phase, fraction) ==
    [phase |-> phase,
     fraction |-> fraction,
     started |-> Len(threads),
     alive |-> Cardinality({i \in Workers : thread_pc[i] \in {"run", "composed", "pasted"}}),
     finished |-> Cardinality({i \in Workers :
                      thread_pc[i] = "dead" /\ thread_exc[i] # "ZeroDivisionError"})]

\* lines 131-153
Setup ==
    /\ pc = "call"
    /\ adjusted_block_size' = AdjustedBlockSize(block_size, quality_level)
    /\ LET output_width == IntScale(image_array.width, ScaleNum(quality_level), ScaleDen(quality_level))
           output_height == IntScale(image_array.height, ScaleNum(quality_level), ScaleDen(quality_level))
       IN  /\ new_image' = NewImage(output_width, output_height)
           /\ sections' = divide_into_sections(output_width, output_height, adjusted_block_size')
           /\ canvas_log' = [p \in Pixels(output_width, output_height) |->
                                [sections |-> 0, tiles |-> 0]]
    /\ pc' = IF show_progress THEN "progress_init" ELSE "thumbnail"
    /\ UNCHANGED <<image_array, global_avg_color, lru_cache, block_size, quality_level,
                   show_progress, scaled_image, scaled_avg_color, results, threads,
                   thread_pc, thread_exc, section_image, join_i, progress_bar,
                   status_text, polls, reports, call, ret>>

\* lines 156-158: st.progress(0), st.empty()
ProgressInit ==
    /\ pc = "progress_init"
    /\ progress_bar' = <<"shown", 0, 1>>
    /\ status_text' = <<"blank", 0>>
    /\ reports' = Append(reports, Report("init", Fraction(0, 1)))
    /\ pc' = "thumbnail"
    /\ UNCHANGED <<image_array, global_avg_color, lru_cache, block_size, quality_level,
                   show_progress, adjusted_block_size, new_image, sections, scaled_image,
                   scaled_avg_color, results, threads, thread_pc, thread_exc,
                   section_image, join_i, polls, canvas_log, call, ret>>

\* line 167: the colour handed to the workers as the thumbnail's average
ScaledAverage(img, thumb) == compute_image_average_color(img)

\* lines 160-171
Thumbnail ==
    /\ pc = "thumbnail"
    /\ scaled_image' = Resize(image_array, adjusted_block_size)
    /\ scaled_avg_color' = ScaledAverage(image_array, scaled_image')
    /\ results' = <<>>
    /\ threads' = <<>>
    /\ pc' = "spawn"
    /\ UNCHANGED <<image_array, global_avg_color, lru_cache, block_size, quality_level,
                   show_progress, adjusted_block_size, new_image, sections, thread_pc,
                   thread_exc, section_image, join_i, progress_bar, status_text, polls,
                   reports, canvas_log, call, ret>>

\* lines 174-183, one iteration: the next section's thread is created and started
StartThread ==
    /\ pc = "spawn"
    /\ Len(threads) < Len(sections)
    /\ threads' = Append(threads, Len(threads))
    /\ thread_pc' = [thread_pc EXCEPT ![Len(threads)] = "run"]
    /\ pc' = IF Len(threads') < Len(sections) THEN "spawn"
             ELSE IF show_progress THEN "poll" ELSE "join"
    /\ UNCHANGED <<image_array, global_avg_color, lru_cache, block_size, quality_level,
                   show_progress, adjusted_block_size, new_image, sections, scaled_image,
                   scaled_avg_color, results, thread_exc, section_image, join_i,
                   progress_bar, status_text, polls, reports, canvas_log, call, ret>>

IsAlive(i) == thread_pc[i] \in {"run", "composed", "pasted"}

\* line 187: the loop condition.  The loop polls every 0.1 s for as long as a
\* worker lives; the model lets it run at most MaxPolls iterations.
PollCheck ==
    /\ pc = "poll"
    /\ IF \E k \in 1..Len(threads) : IsAlive(threads[k])
       THEN polls < MaxPolls /\ pc' = "poll_body"
       ELSE pc' = "progress_done"
    /\ UNCHANGED <<image_array, global_avg_color, lru_cache, block_size, quality_level,
                   show_progress, adjusted_block_size, new_image, sections, scaled_image,
                   scaled_avg_color, results, threads, thread_pc, thread_exc,
                   section_image, join_i, progress_bar, status_text, polls, reports,
                   canvas_log, call, ret>>

\* line 188: len([r for r in results if r is not None])
Completed(res) == Cardinality({k \in 1..Len(res) : res[k] # "None"})

\* lines 188-192
PollReport ==
    /\ pc = "poll_body"
    /\ LET completed == Completed(results)
           progress == Fraction(completed, Len(sections))
       IN  /\ progress_bar' = <<"shown", progress[1], progress[2]>>
           /\ status_text' = <<"Procesando imagen", (completed * 100) \div Len(sections)>>
           /\ reports' = Append(reports, Report("poll", progress))
    /\ polls' = polls + 1
    /\ pc' = "poll"
    /\ UNCHANGED <<image_array, global_avg_color, lru_cache, block_size, quality_level,
                   show_progress, adjusted_block_size, new_image, sections, scaled_image,
                   scaled_avg_color, results, threads, thread_pc, thread_exc,
                   section_image, join_i, canvas_log, call, ret>>

\* faulty variant of ProgressDone: the last report shows the computed
\* progress instead of 1.0
ProgressDone_computed ==
    /\ pc = "progress_done"
    /\ reports' = Append(reports,
                    Report("done", Fraction(Completed(results), Len(sections))))
    /\ progress_bar' = <<"empty", 1, 1>>
    /\ status_text' = <<"empty", 100>>
    /\ pc' = "join"
    /\ UNCHANGED <<image_array, global_avg_color, lru_cache, block_size, quality_level,
                   show_progress, adjusted_block_size, new_image, sections, scaled_image,
                   scaled_avg_color, results, threads, thread_pc, thread_exc,
                   section_image, join_i, polls, canvas_log, call, ret>>

\* lines 195-199
ProgressDone ==
    /\ pc = "progress_done"
    /\ reports' = Append(reports, Report("done", Fraction(1, 1)))
    /\ progress_bar' = <<"empty", 1, 1>>
    /\ status_text' = <<"empty", 100>>
    /\ pc' = "join"
    /\ UNCHANGED <<image_array, global_avg_color, lru_cache, block_size, quality_level,
                   show_progress, adjusted_block_size, new_image, sections, scaled_image,
                   scaled_avg_color, results, threads, thread_pc, thread_exc,
                   section_image, join_i, polls, canvas_log, call, ret>>

\* thread.join() returns once the thread has ended, however it ended
Joinable(i) == thread_pc[i] = "dead"

\* lines 202-203, one iteration
Join ==
    /\ pc = "join"
    /\ join_i < Len(threads)
    /\ Joinable(threads[join_i + 1])
    /\ join_i' = join_i + 1
    /\ pc' = IF join_i' < Len(threads) THEN "join" ELSE "return"
    /\ UNCHANGED <<image_array, global_avg_color, lru_cache, block_size, quality_level,
                   show_progress, adjusted_block_size, new_image, sections, scaled_image,
                   scaled_avg_color, results, threads, thread_pc, thread_exc,
                   section_image, progress_bar, status_text, polls, reports,
                   canvas_log, call, ret>>

\* line 205
Return ==
    /\ pc = "return"
    /\ ret' = [done |-> TRUE, value |-> new_image]
    /\ pc' = "returned"
    /\ UNCHANGED <<image_array, global_avg_color, lru_cache, block_size, quality_level,
                   show_progress, adjusted_block_size, new_image, sections, scaled_image,
                   scaled_avg_color, results, threads, thread_pc, thread_exc,
                   section_image, join_i, progress_bar, status_text, polls, reports,
                   canvas_log, call>>

\* ================================================= _process_section (workers)
\* lines 256-286: the section image is built from the recoloured tiles.  The
\* division of line 264 raises ZeroDivisionError when the canvas has no
\* columns; the exception ends the thread.
WorkerCompose(i) ==
    /\ thread_pc[i] = "run"
    /\ LET section == sections[i + 1]
           blocks == BlockOrigins(section, adjusted_block_size)
       IN  IF new_image.width = 0
           THEN /\ section_image' = [section_image EXCEPT ![i] =
                        NewImage(section[3] - section[1], section[4] - section[2])]
                /\ thread_pc' = [thread_pc EXCEPT ![i] = "dead"]
                /\ thread_exc' = [thread_exc EXCEPT ![i] = "ZeroDivisionError"]
                /\ UNCHANGED lru_cache
           ELSE /\ section_image' = [section_image EXCEPT ![i] =
                        ComposeSection(image_array, new_image.width, section,
                                       adjusted_block_size,
                                       [image |-> scaled_image, avg |-> scaled_avg_color])]
                /\ lru_cache' = lru_cache \cup
                        {BlockKey(image_array, new_image.width, blocks[k][1], blocks[k][2],
                                  adjusted_block_size) : k \in 1..Len(blocks)}
                /\ thread_pc' = [thread_pc EXCEPT ![i] = "composed"]
                /\ UNCHANGED thread_exc
    /\ UNCHANGED <<image_array, global_avg_color, block_size, quality_level,
                   show_progress, pc, adjusted_block_size, new_image, sections,
                   scaled_image, scaled_avg_color, results, threads, join_i,
                   progress_bar, status_text, polls, reports, canvas_log, call, ret>>

\* line 289: the section image is pasted into the shared canvas
WorkerPaste(i) ==
    /\ thread_pc[i] = "composed"
    /\ LET section == sections[i + 1]
       IN  /\ new_image' = Paste(new_image, section_image[i], section[1], section[2])
           /\ canvas_log' =
                [p \in DOMAIN canvas_log |->
                    IF /\ p[1] - section[1] \in 0..(section_image[i].width - 1)
                       /\ p[2] - section[2] \in 0..(section_image[i].height - 1)
                    THEN [sections |-> canvas_log[p].sections + 1,
                          tiles |-> canvas_log[p].tiles
                                    + TilePastes(section, adjusted_block_size, scaled_image,
                                                 <<p[1] - section[1], p[2] - section[2]>>)]
                    ELSE canvas_log[p]]
    /\ thread_pc' = [thread_pc EXCEPT ![i] = "pasted"]
    /\ UNCHANGED <<image_array, global_avg_color, lru_cache, block_size, quality_level,
                   show_progress, pc, adjusted_block_size, sections, scaled_image,
                   scaled_avg_color, results, threads, thread_exc, section_image,
                   join_i, progress_bar, status_text, polls, reports, call, ret>>

\* line 292: results[index] = True.  A list assignment outside the list's
\* length raises IndexError, which ends the thread.
WorkerMark(i) ==
    /\ thread_pc[i] = "pasted"
    /\ IF i < Len(results)
       THEN /\ results' = [results EXCEPT ![i + 1] = "True"]
            /\ UNCHANGED thread_exc
       ELSE /\ thread_exc' = [thread_exc EXCEPT ![i] = "IndexError"]
            /\ UNCHANGED results
    /\ thread_pc' = [thread_pc EXCEPT ![i] = "dead"]
    /\ UNCHANGED <<image_array, global_avg_color, lru_cache, block_size, quality_level,
                   show_progress, pc, adjusted_block_size, new_image, sections,
                   scaled_image, scaled_avg_color, threads, section_image, join_i,
                   progress_bar, status_text, polls, reports, canvas_log, call, ret>>

Next ==
    \/ Setup
    \/ ProgressInit
    \/ Thumbnail
    \/ StartThread
    \/ PollCheck
    \/ PollReport
    \/ ProgressDone
    \/ Join
    \/ Return
    \/ \E i \in Workers : WorkerCompose(i)
    \/ \E i \in Workers : WorkerPaste(i)
    \/ \E i \in Workers : WorkerMark(i)

Spec == Init /\ [][Next]_vars

\* ============================================ direct calls of pure methods
\* _divide_into_sections(width, height, block_size) called on its own
InitDivide ==
    /\ image_array = Image1x1
    /\ global_avg_color = compute_image_average_color(image_array)
    /\ block_size = 1
    /\ quality_level = "normal"
    /\ show_progress = FALSE
    /\ NotStarted
    /\ call \in [fn : {"_divide_into_sections"}, width : 0..MaxDivWidth,
                 height : 0..MaxDivHeight, block_size : 1..2]
    /\ ret = [done |-> FALSE, value |-> <<>>]

DivideCall ==
    /\ call.fn = "_divide_into_sections"
    /\ ~ret.done
    /\ ret' = [done |-> TRUE,
               value |-> divide_into_sections(call.width, call.height, call.block_size)]
    /\ UNCHANGED <<image_array, global_avg_color, lru_cache, block_size, quality_level,
                   show_progress, pc, adjusted_block_size, new_image, sections,
                   scaled_image, scaled_avg_color, results, threads, thread_pc,
                   thread_exc, section_image, join_i, progress_bar, status_text, polls,
                   reports, canvas_log, call>>

NextDivide == DivideCall

SpecDivide == InitDivide /\ [][NextDivide]_vars

\* a 12-megapixel photograph: bright sky over dark ground
ImageLarge ==
    [width |-> 4000, height |-> 3000,
     bands |-> <<[rows |-> 2000, runs |-> <<[len |-> 4000, color |-> <<210, 230, 255>>]>>],
                 [rows |-> 1000, runs |-> <<[len |-> 4000, color |-> <<60, 90, 30>>]>>]>>]

AverageImages == {Image2x2, Image4x4, ImageLarge}

\* _compute_block_average_color(x0, y0, block_size) called on its own
InitAverage ==
    /\ image_array \in AverageImages
    /\ global_avg_color = compute_image_average_color(image_array)
    /\ block_size = 1
    /\ quality_level = "normal"
    /\ show_progress = FALSE
    /\ NotStarted
    /\ call \in [fn : {"_compute_block_average_color"},
                 x0 : 0..MaxCoord \cup {1000, 4000},
                 y0 : 0..MaxCoord \cup {1000, 3000},
                 block_size : (-1)..MaxCoord \cup {3000, 4000}]
    /\ ret = [done |-> FALSE, value |-> <<>>]

AverageCall ==
    /\ call.fn = "_compute_block_average_color"
    /\ ~ret.done
    /\ ret' = [done |-> TRUE,
               value |-> compute_block_average_color(image_array, call.x0, call.y0,
                                                     call.block_size)]
    /\ lru_cache' = lru_cache \cup {<<call.x0, call.y0, call.block_size>>}
    /\ UNCHANGED <<image_array, global_avg_color, block_size, quality_level,
                   show_progress, pc, adjusted_block_size, new_image, sections,
                   scaled_image, scaled_avg_color, results, threads, thread_pc,
                   thread_exc, section_image, join_i, progress_bar, status_text, polls,
                   reports, canvas_log, call>>

NextAverage == AverageCall

SpecAverage == InitAverage /\ [][NextAverage]_vars

\* ================================================================= claims
Returned == pc = "returned" /\ ret.done

AllWorkersEnded == \A i \in Workers : thread_pc[i] = "dead"

\* the worker of section i has executed the paste of line 289
HasPasted(i) ==
    \/ thread_pc[i] = "pasted"
    \/ thread_pc[i] = "dead" /\ thread_exc[i] # "ZeroDivisionError"

SameFraction(f, n, d) == f[1] * d = n * f[2]

\* the canvas _process_section builds when one section covers all rows
SingleSectionCanvas ==
    ComposeSection(image_array, new_image.width,
                   <<0, 0, new_image.width, new_image.height>>,
                   adjusted_block_size,
                   [image |-> scaled_image, avg |-> scaled_avg_color])

\* C1: the canvas returned with the rows split into 4 sections is
\* pixel-identical to the canvas a single section covering all rows gives
\* (a canvas without columns has no pixels to compare).
C1_SectionsDoNotChangeCanvas ==
    (Returned /\ new_image.width > 0) => ret.value = SingleSectionCanvas

\* C2: process_image never returns a canvas normally after a section worker
\* has failed (raised inside _process_section).
C2_NoNormalReturnAfterFailure ==
    Returned => \A i \in Workers : thread_exc[i] = "none"

\* C3: at the moment process_image returns, no worker thread is running and
\* every section has been pasted into the canvas, with or without progress
\* reporting.
C3_ReturnAfterAllSectionsPasted ==
    Returned => \A i \in Workers : ~IsAlive(i) /\ HasPasted(i)

\* C4: with progress reporting enabled, a report with fraction 0.0 is made
\* before any worker is started, and a report with fraction 1.0 is made after
\* all workers have finished and before process_image goes on to return.
C4_ProgressAtStartAndEnd ==
    show_progress =>
        /\ Len(threads) > 0 =>
              \E k \in 1..Len(reports) :
                  SameFraction(reports[k].fraction, 0, 1) /\ reports[k].started = 0
        /\ pc \in {"join", "return", "returned"} =>
              \E k \in 1..Len(reports) :
                  /\ SameFraction(reports[k].fraction, 1, 1)
                  /\ reports[k].started = num_sections
                  /\ reports[k].alive = 0

C4_Witness ==
    /\ Returned
    /\ show_progress
    /\ \E k \in 1..Len(reports) : reports[k].phase = "poll" /\ reports[k].alive > 0

\* number of tiles pasted over all sections
RECURSIVE TotalBlocks(_)
TotalBlocks(k) ==
    IF k = 0 THEN 0
    ELSE Len(BlockOrigins(sections[k], adjusted_block_size)) + TotalBlocks(k - 1)

\* C5: with preset normal and blockSize at least both source dimensions,
\* exactly one block is pasted, the recolour target equals the average of the
\* whole source, and the returned canvas is the unmodified thumbnail (clipped
\* to the canvas).
C5_SingleBlockIsThumbnail ==
    (/\ Returned
     /\ quality_level = "normal"
     /\ block_size >= image_array.width
     /\ block_size >= image_array.height)
    => /\ TotalBlocks(Len(sections)) = 1
       /\ scaled_avg_color = compute_image_average_color(image_array)
       /\ ret.value = Paste(NewImage(new_image.width, new_image.height), scaled_image, 0, 0)

\* exact arithmetic on numbers written q * n + r with 0 <= r < n
QRAdd(a, b, n) ==
    IF a[2] + b[2] >= n THEN <<a[1] + b[1] + 1, a[2] + b[2] - n>>
    ELSE <<a[1] + b[1], a[2] + b[2]>>

RECURSIVE QRMul(_, _, _)
QRMul(k, a, n) ==
    IF k = 0 THEN <<0, 0>>
    ELSE LET h == QRMul(k \div 2, a, n)
             d == QRAdd(h, h, n)
         IN  IF k % 2 = 1 THEN QRAdd(d, a, n) ELSE d

RECURSIVE ExactRowSum(_, _, _, _, _, _, _)
ExactRowSum(runs, at, x0, x1, rows, ch, n) ==
    IF runs = <<>> THEN <<0, 0>>
    ELSE LET area == Overlap(at, at + Head(runs).len, x0, x1) * rows
         IN  QRAdd(QRMul(Head(runs).color[ch], <<area \div n, area % n>>, n),
                   ExactRowSum(Tail(runs), at + Head(runs).len, x0, x1, rows, ch, n),
                   n)

RECURSIVE ExactSum(_, _, _, _, _, _, _, _)
ExactSum(bands, at, x0, x1, y0, y1, ch, n) ==
    IF bands = <<>> THEN <<0, 0>>
    ELSE QRAdd(ExactRowSum(Head(bands).runs, 0, x0, x1,
                           Overlap(at, at + Head(bands).rows, y0, y1), ch, n),
               ExactSum(Tail(bands), at + Head(bands).rows, x0, x1, y0, y1, ch, n),
               n)

\* the per-channel integer mean of the slice [y0:y1, x0:x1], computed exactly
ExactMean(img, x0, x1, y0, y1) ==
    [ch \in Channels |->
        ExactSum(img.bands, 0, x0, x1, y0, y1, ch, (x1 - x0) * (y1 - y0))[1]]

\* C6: _compute_block_average_color(x0, y0, block_size) with x0, y0 >= 0
\* returns (0,0,0) when the rectangle does not intersect the image, and
\* otherwise the per-channel integer mean of the rectangle clipped to the
\* image.
C6_BlockAverageIsClippedMean ==
    ret.done =>
        LET x1 == Min(call.x0 + call.block_size, image_array.width)
            y1 == Min(call.y0 + call.block_size, image_array.height)
        IN  IF \/ call.x0 >= image_array.width
               \/ call.y0 >= image_array.height
               \/ call.block_size <= 0
            THEN ret.value = Black
            ELSE ret.value = ExactMean(image_array, call.x0, x1, call.y0, y1)

\* C7: every progress report made while workers run carries the fraction
\* (sections whose worker has finished processing and pasting) / (sections).
C7_ProgressCountsFinishedSections ==
    \A k \in 1..Len(reports) :
        reports[k].phase = "poll" =>
            SameFraction(reports[k].fraction, reports[k].finished, num_sections)

\* C8: no canvas pixel is ever written by two section pastes or by two tile
\* pastes, and once all workers have ended every canvas pixel has been written
\* by exactly one tile paste of exactly one worker.
C8_EachPixelWrittenOnce ==
    /\ \A p \in DOMAIN canvas_log :
          canvas_log[p].sections <= 1 /\ canvas_log[p].tiles <= 1
    /\ AllWorkersEnded =>
          \A p \in DOMAIN canvas_log :
              canvas_log[p].sections = 1 /\ canvas_log[p].tiles = 1

C8_Witness ==
    /\ AllWorkersEnded
    /\ Cardinality(DOMAIN canvas_log) >= 16
    /\ \A i \in Workers : Len(BlockOrigins(sections[i + 1], adjusted_block_size)) >= 2

\* C9: _divide_into_sections returns, for every width and height >= 0,
\* full-width row ranges [y_start, y_end) with y_start <= y_end that are
\* contiguous, pairwise disjoint and cover exactly [0, height), all but the
\* last of height // 4, the last one taking the remainder rows.
C9_SectionsPartitionRows ==
    ret.done =>
        LET s == ret.value
            n == Len(s)
        IN  /\ n = num_sections
            /\ \A k \in 1..n :
                  /\ s[k][1] = 0
                  /\ s[k][3] = call.width
                  /\ s[k][2] <= s[k][4]
            /\ s[1][2] = 0
            /\ s[n][4] = call.height
            /\ \A k \in 1..(n - 1) :
                  /\ s[k][4] = s[k + 1][2]
                  /\ s[k][4] - s[k][2] = call.height \div num_sections
            /\ \A y \in 0..(call.height - 1) :
                  Cardinality({k \in 1..n : s[k][2] <= y /\ y < s[k][4]}) = 1
            /\ \A k \in 1..n : \A y \in s[k][2]..(s[k][4] - 1) : y \in 0..(call.height - 1)

C9_Witness ==
    /\ ret.done
    /\ call.fn = "_divide_into_sections"
    /\ call.height > num_sections
    /\ call.height % num_sections # 0
    /\ ret.value[num_sections][4] - ret.value[num_sections][2]
         > call.height \div num_sections

\* C10: the target average handed to the recolour step is the mean colour of
\* the resized thumbnail itself.
C10_TargetIsThumbnailMean ==
    pc \in {"spawn", "poll", "poll_body", "progress_done", "join", "return", "returned"}
        => scaled_avg_color = BuiltImageAverage(scaled_image)

====
